---- MODULE Spec2Model ----
(***************************************************************************)
(* A model of the Synacor virtual machine of src/src/vm.c: the loaded      *)
(* address space, the register bank, the call stack, the host input and    *)
(* output, and the fetch/execute loop with one action per opcode.          *)
(***************************************************************************)
EXTENDS Integers, Sequences, FiniteSets, TLC

(***************************************************************************)
(* Program constants (vm.c, "Defines").                                    *)
(***************************************************************************)
STACK_SIZE == 32768
ARCH_MODULO == 32768
REGISTERS_SIZE == 8
STORAGE_REG_LOW == 32768
STORAGE_REG_HIGH == 32775
MEMORY_SIZE == 32767
VALUE_MAX_LITERAL == 32767
VALUE_MAX_REGISTER == 32775
\* an unsigned short has 16 bits; a C int has 32
USHORT_MOD == 65536
INT_MAX == 2147483647
\* getchar() at end of input
EOF == -1

(***************************************************************************)
(* Bounds of the model.                                                    *)
(***************************************************************************)
\* instructions executed per run
MaxSteps == 7
\* executed instructions remembered in hist
HistLen == 4
\* most free stack slots left when a push loop or call loop is picked up
DeepSlack == 1

(***************************************************************************)
(* The values an access outside an object may yield: a sample of the       *)
(* unsigned shorts (the access is undefined behaviour).                    *)
(***************************************************************************)
UBWords == {0, 9, 32768, 65535}

VARIABLES
    memory,      \* memory.contents, kept as the cells that are not 0
    size,        \* binary.size, the bytes of the binary file
    length,      \* binary.length
    registers,   \* registers.contents, indexed 0..7
    stack,       \* stack.contents[0..stack.position]
    pc,          \* binary_exec's pc
    status,      \* "RUNNING", "HALTED" (exit(0)), "FAULTED" (vm_fail), "CRASHED"
    input,       \* what getchar() has still to deliver
    output,      \* what putchar() has written
    hist,        \* the last HistLen executed instructions, each with the state it ran in
    steps,       \* instructions executed so far
    straight     \* no jmp, jt, jf, call or ret has been executed so far

vars ==
    <<memory, size, length, registers, stack, pc, status, input, output, hist, steps, straight>>

(***************************************************************************)
(* Bit operations on naturals (C's &, | and ~ on unsigned shorts).         *)
(***************************************************************************)
RECURSIVE BitAnd(_, _)
BitAnd(x, y) ==
    IF x = 0 \/ y = 0 THEN 0
    ELSE (x % 2) * (y % 2) + 2 * BitAnd(x \div 2, y \div 2)

RECURSIVE BitOr(_, _)
BitOr(x, y) ==
    IF x = 0 THEN y
    ELSE IF y = 0 THEN x
    ELSE (IF x % 2 = 1 \/ y % 2 = 1 THEN 1 ELSE 0) + 2 * BitOr(x \div 2, y \div 2)

\* (~x) & 0x7fff: the mask keeps 15 bits, which depend on the low 16 bits of x alone
BitNot15(x) == BitAnd((USHORT_MOD - 1) - x, 32767)

\* conversion of an int to unsigned short
ToUShort(v) == v % USHORT_MOD

(***************************************************************************)
(* The address space.                                                      *)
(***************************************************************************)
\* memory.contents[i] for an index inside the array (mem_init zeroes it)
MemAt(m, i) == IF i \in DOMAIN m THEN m[i] ELSE 0

\* memory.contents[i] = v for an index inside the array
MemPut(m, i, v) ==
    LET D == IF v = 0 THEN DOMAIN m \ {i} ELSE DOMAIN m \cup {i}
    IN  [j \in D |-> IF j = i THEN v ELSE m[j]]

\* binary_load: the words of the image from address 0, over the zeroed memory
LoadWords(words) ==
    LET n == Len(words)
    IN  [i \in {j \in 0..(n - 1) : words[j + 1] # 0} |-> words[i + 1]]

\* the bytes of a file that holds the words given, low byte first
WordsToBytes(words) ==
    LET n == Len(words)
    IN  << >> \o [k \in 1..(2 * n) |->
            IF k % 2 = 1 THEN words[(k + 1) \div 2] % 256 ELSE words[k \div 2] \div 256]

\* the unsigned shorts that fread leaves in the zeroed memory.contents, read on a
\* little-endian machine; a last byte without a partner is the low byte of its word
BytesToWords(bytes) ==
    LET n == Len(bytes)
    IN  << >> \o [i \in 1..((n + 1) \div 2) |->
            bytes[2 * i - 1] + 256 * (IF 2 * i <= n THEN bytes[2 * i] ELSE 0)]

\* binary_load, for a file that can be read and fits memory.contents
binary_load(bytes) ==
    [size |-> Len(bytes),
     memory |-> LoadWords(BytesToWords(bytes)),
     length |-> Len(bytes) \div 2]

\* the index is inside memory.contents
MemIndexOk(address) == address < MEMORY_SIZE

\* mem_read: the values the read may yield
mem_read(address) ==
    IF MemIndexOk(address) THEN {MemAt(memory, address)} ELSE UBWords

\* the word binary_exec fetches at index i
Fetch(i) == mem_read(i)

(***************************************************************************)
(* Registers and operands.                                                 *)
(***************************************************************************)
\* reg_write's address check passes
RegOk(address) == ~(address < STORAGE_REG_LOW \/ address > STORAGE_REG_HIGH)

\* a reg_write that is one slot off
reg_write_NextSlot(address, value) ==
    [registers EXCEPT ![(address - STORAGE_REG_LOW + 1) % REGISTERS_SIZE] = ToUShort(value)]

\* reg_write, once the check has passed
reg_write(address, value) ==
    [registers EXCEPT ![address - STORAGE_REG_LOW] = ToUShort(value)]

\* the index reg_read uses is inside registers.contents
RegIndexOk(address) == address - STORAGE_REG_LOW < REGISTERS_SIZE

\* reg_read: the values the read may yield
reg_read(address) ==
    IF address < STORAGE_REG_LOW THEN {address}
    ELSE IF RegIndexOk(address) THEN {registers[address - STORAGE_REG_LOW]}
    ELSE UBWords

\* a val_get in which vm_fail does not end the run
ValOk_NeverFails(field) == TRUE

\* val_get does not reach vm_fail
ValOk(field) == field <= VALUE_MAX_REGISTER

\* a val_get that returns the field of a register operand, not the register
val_get_Raw(field) == IF field <= VALUE_MAX_REGISTER THEN field ELSE 0

\* val_get's value; the last line is the return that follows vm_fail
val_get(field) ==
    IF field <= VALUE_MAX_LITERAL THEN field
    ELSE IF field <= VALUE_MAX_REGISTER THEN registers[field - STORAGE_REG_LOW]
    ELSE 0

(***************************************************************************)
(* The call stack.                                                         *)
(***************************************************************************)
position == Len(stack) - 1

\* a full test that is late by one
stack_is_full_Late == position >= STACK_SIZE

stack_is_full == position >= (STACK_SIZE - 1)

stack_is_empty == position < 0

\* stack_push, once stack_is_full has answered no
stack_push(element) == Append(stack, ToUShort(element))

\* a pop that takes the oldest entry
stack_pop_Oldest == [value |-> stack[1], stack |-> Tail(stack)]

\* stack_pop, once stack_is_empty has answered no: the value returned and the stack left
stack_pop ==
    [value |-> stack[Len(stack)], stack |-> SubSeq(stack, 1, Len(stack) - 1)]

(***************************************************************************)
(* The program images the model runs, and the input streams.               *)
(***************************************************************************)
\* raw operand fields: literals, registers 0, 1 and 7, and invalid fields
Fields == {0, 2, 32767, 32768, 32769, 32775, 32776, 65535}
\* destination and source fields of the four-word instructions
Dests == {2, 32768, 32775, 32776}
Srcs == {0, 2, 32767, 32769, 32776}

\* one instruction of each width, for every opcode and the fields above
Instructions ==
    {<<0>>, <<18>>, <<21>>, <<22>>, <<65535>>}
    \cup {<<op, a>> : op \in {2, 3, 6, 17, 19, 20}, a \in Fields}
    \cup {<<op, a, b>> : op \in {1, 7, 8, 14, 15, 16}, a \in Fields, b \in Fields}
    \cup {<<op, a, b, c>> : op \in {4, 5, 9, 10, 11, 12, 13},
                            a \in Dests, b \in Srcs, c \in Srcs}

\* code run before the instruction: nothing, or
\*   in r1; set r0 32767; push 5
Preludes == {<< >>, <<20, 32769, 1, 32768, 32767, 2, 5>>}

\* programs of several instructions
Scenarios ==
    {   <<9, 32768, 32769, 4>>,                       \* add r0 r1 4
        <<17, 4, 0, 0, 18>>,                          \* call 4; halt; ..; 4: ret
        <<2, 9, 17, 6, 21, 0, 18>>,                   \* push 9; call 6; noop; halt; 6: ret
        <<1, 32768, 7, 17, 32768, 19, 66, 18>>,       \* set r0 7; call r0; out 'B'; 7: ret
        <<6, 4, 18, 0, 17, 2>>,                       \* jmp 4; 2: ret; 4: call 2
        <<15, 32768, 1, 15, 32769, 32768>>,           \* rmem r0 1; rmem r1 r0
        <<15, 32768, 1, 16, 32768, 9>>,               \* rmem r0 1; wmem r0 9
        <<15, 32768, 1, 2, 32768, 3, 32769>>,         \* rmem r0 1; push r0; pop r1
        <<20, 32768, 20, 32769, 19, 32768>>,          \* in r0; in r1; out r0
        <<0, 65535, 22, 32776>>,                      \* halt, and words that are no program
        <<21, 21, 19, 65, 21, 21, 21>>,               \* noop; noop; out 'A'; noop; noop; noop
        <<21, 21, 21, 21, 21, 21>>                    \* six noops
    }
    \cup {<<1, f, v, 2, f>> : f \in {32768, 32775}, v \in {7, 32767}}    \* set f v; push f
    \cup {<<2, v, 3, 32768>> : v \in {0, 7, 32767}}                      \* push v; pop r0
    \cup {<<2, v, 2, w, 3, 32768, 3, 32769>> : v \in {7, 32767}, w \in {0, 8}}
    \cup {<<16, m, v, 15, 32768, m>> :                                   \* wmem m v; rmem r0 m
            m \in {1, 6, 32766, 32767}, v \in {0, 5, 32767}}

\* a loop that pushes, picked up at pc = 0 with 0..DeepSlack free slots left:
\*   push 5; jmp 0     and     call 0
DeepImages ==
    {[words |-> <<2, 5, 6, 0>>, stack |-> [i \in 1..(STACK_SIZE - k) |-> 5]] : k \in 0..DeepSlack}
    \cup {[words |-> <<17, 0>>, stack |-> [i \in 1..(STACK_SIZE - k) |-> 2]] : k \in 0..DeepSlack}

\* images that fill memory.contents: a jmp to one of the last cells, then zeroes
LongImages ==
    {[words |-> <<6, t>> \o [i \in 1..(MEMORY_SIZE - 2) |-> 0],
      stack |-> << >>] : t \in {MEMORY_SIZE - 3, MEMORY_SIZE}}

Images ==
    {[words |-> p \o i, stack |-> << >>] : p \in Preludes, i \in Instructions}
    \cup {[words |-> w, stack |-> << >>] : w \in Scenarios}
    \cup DeepImages
    \cup LongImages

\* the binary files: the images, and files with an odd number of bytes
\*   noop        out 'A'        set r0 <..>
\* each followed by one byte more
OddFiles ==
    {[bytes |-> WordsToBytes(w) \o <<t>>, stack |-> << >>] :
        w \in {<< >>, <<21>>, <<19, 65>>, <<1, 32768>>}, t \in {0, 21, 255}}

Files ==
    {[bytes |-> WordsToBytes(img.words), stack |-> img.stack] : img \in Images}
    \cup OddFiles

Inputs == {<< >>, <<65>>}

(***************************************************************************)
(* main: reg_init, mem_init, stack_init, binary_load; binary_exec's pc = 0 *)
(***************************************************************************)
Init ==
    \E file \in Files, inp \in Inputs :
        LET loaded == binary_load(file.bytes) IN
        /\ size = loaded.size
        /\ memory = loaded.memory
        /\ length = loaded.length
        /\ registers = [i \in 0..(REGISTERS_SIZE - 1) |-> 0]
        /\ stack = file.stack
        /\ pc = 0
        /\ status = "RUNNING"
        /\ input = inp
        /\ output = << >>
        /\ hist = << >>
        /\ steps = 0
        /\ straight = TRUE

(***************************************************************************)
(* How an instruction ends.                                                *)
(***************************************************************************)
\* a check that also refuses pc = binary.length
PcOutOfBounds_Strict(newpc) == newpc < 0 \/ newpc >= length

\* binary_exec's check of pc after operation_exec has returned
PcOutOfBounds(newpc) == newpc < 0 \/ newpc > length

\* operation_exec returns with the state given; binary_exec checks the pc
Retire(r, m, s, newpc, i, o) ==
    /\ registers' = r
    /\ memory' = m
    /\ stack' = s
    /\ pc' = newpc
    /\ input' = i
    /\ output' = o
    /\ status' = IF PcOutOfBounds(newpc) THEN "FAULTED" ELSE "RUNNING"

\* vm_fail: exit(1), with what the instruction had done before
vm_fail(s, i) ==
    /\ status' = "FAULTED"
    /\ stack' = s
    /\ input' = i
    /\ UNCHANGED <<registers, memory, pc, output>>

\* the process is killed by the access (or division) it made
Crash ==
    /\ status' = "CRASHED"
    /\ UNCHANGED <<registers, memory, stack, pc, input, output>>

\* the instruction about to run, with the state it runs in
Snapshot(opcode, a, b, c) ==
    [op |-> opcode, a |-> a, b |-> b, c |-> c, pc |-> pc,
     registers |-> registers, memory |-> memory, stack |-> stack]

Remember(h, e) ==
    IF Len(h) < HistLen THEN Append(h, e) ELSE Append(Tail(h), e)

\* the four words binary_exec hands to operation_exec
Fetched ==
    {[op |-> opcode, a |-> a, b |-> b, c |-> c] :
        opcode \in Fetch(pc), a \in Fetch(pc + 1), b \in Fetch(pc + 2), c \in Fetch(pc + 3)}

\* the opcodes that set pc instead of advancing it
ControlFlow == {6, 7, 8, 17, 18}

\* a loop that goes on after exit() has been called
Turn_NoExit(f) ==
    /\ steps < MaxSteps
    /\ hist' = Remember(hist, Snapshot(f.op, f.a, f.b, f.c))
    /\ steps' = steps + 1
    /\ straight' = (straight /\ f.op \notin ControlFlow)
    /\ UNCHANGED <<size, length>>

\* one turn of binary_exec's loop, on the words f
Turn(f) ==
    /\ status = "RUNNING"
    /\ steps < MaxSteps
    /\ hist' = Remember(hist, Snapshot(f.op, f.a, f.b, f.c))
    /\ steps' = steps + 1
    /\ straight' = (straight /\ f.op \notin ControlFlow)
    /\ UNCHANGED <<size, length>>

\* reg_write(a, value) and then pc = newpc
WriteReg(a, value, s, newpc, i) ==
    IF RegOk(a)
    THEN Retire(reg_write(a, value), memory, s, newpc, i, output)
    ELSE vm_fail(s, i)

\* reg_write(a, value); pc += 4, value being computed from val_get(b) and val_get(c)
Alu(a, b, c, value) ==
    IF ValOk(b) /\ ValOk(c)
    THEN WriteReg(a, value, stack, pc + 4, input)
    ELSE vm_fail(stack, input)

(***************************************************************************)
(* operation_exec, one opcode at a time.                                   *)
(***************************************************************************)
\* case 0: exit(0)
DoHalt(a, b, c) ==
    /\ status' = "HALTED"
    /\ UNCHANGED <<registers, memory, stack, pc, input, output>>

Halt == \E f \in Fetched : f.op = 0 /\ Turn(f) /\ DoHalt(f.a, f.b, f.c)

\* case 1: reg_write(a, reg_read(b)); pc += 3
DoSet(a, b, c) ==
    \/ \E v \in reg_read(b) : WriteReg(a, v, stack, pc + 3, input)
    \/ ~(b < STORAGE_REG_LOW) /\ ~RegIndexOk(b) /\ Crash

Set == \E f \in Fetched : f.op = 1 /\ Turn(f) /\ DoSet(f.a, f.b, f.c)

\* case 2: stack_push(val_get(a)); pc += 2
DoPush(a, b, c) ==
    IF ~ValOk(a) \/ stack_is_full
    THEN vm_fail(stack, input)
    ELSE Retire(registers, memory, stack_push(val_get(a)), pc + 2, input, output)

Push == \E f \in Fetched : f.op = 2 /\ Turn(f) /\ DoPush(f.a, f.b, f.c)

\* case 3: reg_write(a, stack_pop()); pc += 2
DoPop(a, b, c) ==
    IF stack_is_empty
    THEN vm_fail(stack, input)
    ELSE WriteReg(a, stack_pop.value, stack_pop.stack, pc + 2, input)

Pop == \E f \in Fetched : f.op = 3 /\ Turn(f) /\ DoPop(f.a, f.b, f.c)

\* case 4: reg_write(a, val_get(b) == val_get(c) ? 1 : 0); pc += 4
EqOf(x, y) == IF x = y THEN 1 ELSE 0
DoEq(a, b, c) == Alu(a, b, c, EqOf(val_get(b), val_get(c)))

Eq == \E f \in Fetched : f.op = 4 /\ Turn(f) /\ DoEq(f.a, f.b, f.c)

\* case 5: reg_write(a, val_get(b) > val_get(c) ? 1 : 0); pc += 4
GtOf(x, y) == IF x > y THEN 1 ELSE 0
DoGt(a, b, c) == Alu(a, b, c, GtOf(val_get(b), val_get(c)))

Gt == \E f \in Fetched : f.op = 5 /\ Turn(f) /\ DoGt(f.a, f.b, f.c)

\* case 6: pc = val_get(a)
DoJmp(a, b, c) ==
    IF ValOk(a)
    THEN Retire(registers, memory, stack, val_get(a), input, output)
    ELSE vm_fail(stack, input)

Jmp == \E f \in Fetched : f.op = 6 /\ Turn(f) /\ DoJmp(f.a, f.b, f.c)

\* pc = taken ? val_get(b) : pc + 3, val_get(b) being called only when taken
Branch(taken, b) ==
    IF taken
    THEN IF ValOk(b)
         THEN Retire(registers, memory, stack, val_get(b), input, output)
         ELSE vm_fail(stack, input)
    ELSE Retire(registers, memory, stack, pc + 3, input, output)

\* case 7: pc = (val_get(a) != 0) ? val_get(b) : pc + 3
DoJt(a, b, c) ==
    IF ValOk(a) THEN Branch(val_get(a) # 0, b) ELSE vm_fail(stack, input)

Jt == \E f \in Fetched : f.op = 7 /\ Turn(f) /\ DoJt(f.a, f.b, f.c)

\* case 8: pc = (val_get(a) == 0) ? val_get(b) : pc + 3
DoJf(a, b, c) ==
    IF ValOk(a) THEN Branch(val_get(a) = 0, b) ELSE vm_fail(stack, input)

Jf == \E f \in Fetched : f.op = 8 /\ Turn(f) /\ DoJf(f.a, f.b, f.c)

\* an addition without the reduction
AddOf_NoModulo(x, y) == x + y

\* case 9: reg_write(a, (val_get(b) + val_get(c)) % ARCH_MODULO); pc += 4
AddOf(x, y) == (x + y) % ARCH_MODULO
DoAdd(a, b, c) == Alu(a, b, c, AddOf(val_get(b), val_get(c)))

Add == \E f \in Fetched : f.op = 9 /\ Turn(f) /\ DoAdd(f.a, f.b, f.c)

\* the int product of two unsigned shorts overflows
MultOverflows(x, y) == x > 0 /\ y > INT_MAX \div x

\* case 10: reg_write(a, (val_get(b) * val_get(c)) % ARCH_MODULO); pc += 4
MultOf(x, y) == (x * y) % ARCH_MODULO
DoMult(a, b, c) ==
    IF ValOk(b) /\ ValOk(c) /\ MultOverflows(val_get(b), val_get(c))
    THEN \E v \in UBWords : WriteReg(a, v, stack, pc + 4, input)
    ELSE Alu(a, b, c, MultOf(val_get(b), val_get(c)))

Mult == \E f \in Fetched : f.op = 10 /\ Turn(f) /\ DoMult(f.a, f.b, f.c)

\* case 11: reg_write(a, val_get(b) % val_get(c)); pc += 4
ModOf(x, y) == x % y
DoMod(a, b, c) ==
    IF ValOk(b) /\ ValOk(c) /\ val_get(c) = 0
    THEN \/ Crash
         \/ \E v \in UBWords : WriteReg(a, v, stack, pc + 4, input)
    ELSE IF ValOk(b) /\ ValOk(c)
         THEN Alu(a, b, c, ModOf(val_get(b), val_get(c)))
         ELSE vm_fail(stack, input)

Mod == \E f \in Fetched : f.op = 11 /\ Turn(f) /\ DoMod(f.a, f.b, f.c)

\* case 12: reg_write(a, val_get(b) & val_get(c)); pc += 4
DoAnd(a, b, c) == Alu(a, b, c, BitAnd(val_get(b), val_get(c)))

And == \E f \in Fetched : f.op = 12 /\ Turn(f) /\ DoAnd(f.a, f.b, f.c)

\* case 13: reg_write(a, val_get(b) | val_get(c)); pc += 4
DoOr(a, b, c) == Alu(a, b, c, BitOr(val_get(b), val_get(c)))

Or == \E f \in Fetched : f.op = 13 /\ Turn(f) /\ DoOr(f.a, f.b, f.c)

\* case 14: reg_write(a, (~val_get(b)) & 0x7fff); pc += 3
DoNot(a, b, c) ==
    IF ValOk(b)
    THEN WriteReg(a, BitNot15(val_get(b)), stack, pc + 3, input)
    ELSE vm_fail(stack, input)

Not == \E f \in Fetched : f.op = 14 /\ Turn(f) /\ DoNot(f.a, f.b, f.c)

\* case 15: reg_write(a, mem_read(val_get(b))); pc += 3
DoRmem(a, b, c) ==
    IF ValOk(b)
    THEN \/ \E v \in mem_read(val_get(b)) : WriteReg(a, v, stack, pc + 3, input)
         \/ ~MemIndexOk(val_get(b)) /\ Crash
    ELSE vm_fail(stack, input)

Rmem == \E f \in Fetched : f.op = 15 /\ Turn(f) /\ DoRmem(f.a, f.b, f.c)

\* mem_write(address, value); pc += 3. An index outside memory.contents lands
\* in nothing the machine reads, or in a register, or kills the process.
mem_write(address, value) ==
    IF MemIndexOk(address)
    THEN Retire(registers, MemPut(memory, address, value), stack, pc + 3, input, output)
    ELSE \/ Retire(registers, memory, stack, pc + 3, input, output)
         \/ \E k \in 0..(REGISTERS_SIZE - 1) :
                Retire([registers EXCEPT ![k] = value], memory, stack, pc + 3, input, output)
         \/ Crash

\* case 16: mem_write(val_get(a), val_get(b)); pc += 3
DoWmem(a, b, c) ==
    IF ValOk(a) /\ ValOk(b)
    THEN mem_write(val_get(a), val_get(b))
    ELSE vm_fail(stack, input)

Wmem == \E f \in Fetched : f.op = 16 /\ Turn(f) /\ DoWmem(f.a, f.b, f.c)

\* a call that pushes its own address
DoCall_OwnAddress(a, b, c) ==
    IF stack_is_full
    THEN vm_fail(stack, input)
    ELSE IF ValOk(a)
         THEN Retire(registers, memory, stack_push(pc), val_get(a), input, output)
         ELSE vm_fail(stack_push(pc), input)

\* case 17: stack_push(pc + 2); pc = val_get(a)
DoCall(a, b, c) ==
    IF stack_is_full
    THEN vm_fail(stack, input)
    ELSE IF ValOk(a)
         THEN Retire(registers, memory, stack_push(pc + 2), val_get(a), input, output)
         ELSE vm_fail(stack_push(pc + 2), input)

Call == \E f \in Fetched : f.op = 17 /\ Turn(f) /\ DoCall(f.a, f.b, f.c)

\* case 18: pc = stack_pop()
DoRet(a, b, c) ==
    IF stack_is_empty
    THEN vm_fail(stack, input)
    ELSE Retire(registers, memory, stack_pop.stack, stack_pop.value, input, output)

Ret == \E f \in Fetched : f.op = 18 /\ Turn(f) /\ DoRet(f.a, f.b, f.c)

\* putchar(c) writes c converted to unsigned char
PutChar(v) == Append(output, v % 256)

\* case 19: putchar(val_get(a)); pc += 2
DoOut(a, b, c) ==
    IF ValOk(a)
    THEN Retire(registers, memory, stack, pc + 2, input, PutChar(val_get(a)))
    ELSE vm_fail(stack, input)

Out == \E f \in Fetched : f.op = 19 /\ Turn(f) /\ DoOut(f.a, f.b, f.c)

\* getchar(): the next character, or EOF once the input has ended
GetChar == IF input = << >> THEN EOF ELSE Head(input)
AfterGetChar == IF input = << >> THEN input ELSE Tail(input)

\* case 20: reg_write(a, getchar()); pc += 2
DoIn(a, b, c) == WriteReg(a, GetChar, stack, pc + 2, AfterGetChar)

In == \E f \in Fetched : f.op = 20 /\ Turn(f) /\ DoIn(f.a, f.b, f.c)

\* case 21: pc += 1
DoNoop(a, b, c) == Retire(registers, memory, stack, pc + 1, input, output)

Noop == \E f \in Fetched : f.op = 21 /\ Turn(f) /\ DoNoop(f.a, f.b, f.c)

\* default: vm_fail
Unknown == \E f \in Fetched : f.op \notin 0..21 /\ Turn(f) /\ vm_fail(stack, input)

Next ==
    \/ Halt \/ Set \/ Push \/ Pop \/ Eq \/ Gt \/ Jmp \/ Jt \/ Jf \/ Add \/ Mult
    \/ Mod \/ And \/ Or \/ Not \/ Rmem \/ Wmem \/ Call \/ Ret \/ Out \/ In \/ Noop
    \/ Unknown

Spec == Init /\ [][Next]_vars

TypeOK ==
    /\ status \in {"RUNNING", "HALTED", "FAULTED", "CRASHED"}
    /\ \A k \in DOMAIN registers : registers[k] \in 0..(USHORT_MOD - 1)
    /\ DOMAIN registers = 0..(REGISTERS_SIZE - 1)
    /\ \A k \in DOMAIN memory : k \in 0..(MEMORY_SIZE - 1) /\ memory[k] \in 1..(USHORT_MOD - 1)
    /\ \A k \in DOMAIN stack : stack[k] \in 0..(USHORT_MOD - 1)
    /\ Len(hist) <= HistLen

(***************************************************************************)
(* The executed instructions, as the properties below read them.           *)
(***************************************************************************)
Executed == hist # << >>

\* the instruction that led to the current state
Last == hist[Len(hist)]

\* the field f as instruction e's val_get resolved it
ValIn(e, f) ==
    IF f <= VALUE_MAX_LITERAL THEN f ELSE e.registers[f - STORAGE_REG_LOW]

IsLiteral(f) == f \in 0..32767
IsRegister(f) == f \in 32768..32775
IsInvalid(f) == f \in 32776..65535

\* the state the i-th remembered instruction left
RegistersAfter(i) == IF i < Len(hist) THEN hist[i + 1].registers ELSE registers
StackAfter(i) == IF i < Len(hist) THEN hist[i + 1].stack ELSE stack

(***************************************************************************)
(* C1. A running machine has 0 <= pc <= length, so every instruction was   *)
(* fetched at an address in 0..length; a pc outside that range is only     *)
(* ever seen in a FAULTED run, and an instruction that moved pc to a value *)
(* inside it, length included, left the run RUNNING.                       *)
(***************************************************************************)
C1_PcBound ==
    /\ status = "RUNNING" => pc \in 0..length
    /\ \A i \in 1..Len(hist) : hist[i].pc \in 0..length
    /\ pc \notin 0..length => status = "FAULTED"
    /\ (Executed /\ pc # Last.pc /\ pc \in 0..length) => status = "RUNNING"

\* a jmp to exactly length, after which the machine is still running
C1_Witness ==
    /\ Executed /\ Last.op = 6
    /\ pc = length /\ pc # Last.pc
    /\ status = "RUNNING"

(***************************************************************************)
(* C2. An instruction that evaluates, with val_get, an operand field in    *)
(* 32776..65535 ends FAULTED with pc left at that instruction.  jt and jf  *)
(* evaluate b only when the jump is taken.                                 *)
(***************************************************************************)
Evaluated(e) ==
    CASE e.op \in {2, 6, 17, 19} -> {e.a}
      [] e.op \in {4, 5, 9, 10, 11, 12, 13} -> {e.b, e.c}
      [] e.op \in {14, 15} -> {e.b}
      [] e.op = 16 -> {e.a, e.b}
      [] e.op = 7 -> IF ~IsInvalid(e.a) /\ ValIn(e, e.a) # 0 THEN {e.a, e.b} ELSE {e.a}
      [] e.op = 8 -> IF ~IsInvalid(e.a) /\ ValIn(e, e.a) = 0 THEN {e.a, e.b} ELSE {e.a}
      [] OTHER -> {}

C2_InvalidOperandFaults ==
    (Executed /\ \E f \in Evaluated(Last) : IsInvalid(f))
        => (status = "FAULTED" /\ pc = Last.pc)

\* a wmem whose address is fine and whose value field is invalid
C2_Witness ==
    /\ Executed /\ Last.op = 16
    /\ ~IsInvalid(Last.a) /\ IsInvalid(Last.b)
    /\ status = "FAULTED"

(***************************************************************************)
(* C3. set with a register destination a: an invalid source field b ends   *)
(* the run FAULTED and leaves the registers alone; a literal b is written  *)
(* to register a; a register b has its value written to register a; and pc *)
(* advances by 3.                                                          *)
(***************************************************************************)
C3_SetResolvesSource ==
    (Executed /\ Last.op = 1 /\ IsRegister(Last.a)) =>
        IF IsInvalid(Last.b)
        THEN status = "FAULTED" /\ registers = Last.registers
        ELSE /\ registers =
                  [Last.registers EXCEPT ![Last.a - STORAGE_REG_LOW] = ValIn(Last, Last.b)]
             /\ pc = Last.pc + 3

(***************************************************************************)
(* C4. Every register, every stack entry and every cell of the address     *)
(* space that the last instruction changed holds a value in 0..32767.      *)
(***************************************************************************)
C4_WordRange ==
    /\ \A k \in DOMAIN registers : registers[k] \in 0..32767
    /\ \A k \in DOMAIN stack : stack[k] \in 0..32767
    /\ Executed =>
          \A k \in DOMAIN memory :
              memory[k] # MemAt(Last.memory, k) => memory[k] \in 0..32767

(***************************************************************************)
(* C5. The stack holds between 0 and STACK_SIZE entries.  A push or call   *)
(* on a stack of STACK_SIZE entries ends FAULTED and stores nothing; a pop *)
(* or ret on an empty stack ends FAULTED; a push of a valid operand on a   *)
(* stack of STACK_SIZE - 1 entries stores its value.                       *)
(***************************************************************************)
C5_StackBounds ==
    /\ Len(stack) \in 0..STACK_SIZE
    /\ \A i \in 1..Len(hist) : Len(hist[i].stack) \in 0..STACK_SIZE
    /\ Executed =>
        /\ (Last.op \in {2, 17} /\ Len(Last.stack) = STACK_SIZE)
               => (status = "FAULTED" /\ stack = Last.stack)
        /\ (Last.op \in {3, 18} /\ Len(Last.stack) = 0)
               => (status = "FAULTED" /\ stack = Last.stack)
        /\ (Last.op = 2 /\ ~IsInvalid(Last.a) /\ Len(Last.stack) = STACK_SIZE - 1)
               => (stack = Append(Last.stack, ValIn(Last, Last.a)) /\ pc = Last.pc + 2)

\* a push on a full stack
C5_Witness ==
    /\ Executed
    /\ Last.op = 2 /\ ~IsInvalid(Last.a) /\ Len(Last.stack) = STACK_SIZE
    /\ status = "FAULTED"

(***************************************************************************)
(* C6. A call at p whose target is within length, run with room on the     *)
(* stack, and followed at once by a ret at the target: after the ret,      *)
(* pc = p + 2, and stack, registers and address space are as before the    *)
(* call; the run goes on when p + 2 <= length.                             *)
(***************************************************************************)
C6_CallRet ==
    Len(hist) >= 2 =>
        LET call == hist[Len(hist) - 1]
            ret == Last
        IN  (/\ call.op = 17 /\ ~IsInvalid(call.a)
             /\ ValIn(call, call.a) <= length
             /\ Len(call.stack) < STACK_SIZE
             /\ ret.op = 18 /\ ret.pc = ValIn(call, call.a))
            =>  /\ pc = call.pc + 2
                /\ stack = call.stack
                /\ registers = call.registers
                /\ memory = call.memory
                /\ (call.pc + 2 <= length => status = "RUNNING")

\* a call made with an entry on the stack, through a register or not, and its ret
C6_Witness ==
    /\ Len(hist) >= 2
    /\ hist[Len(hist) - 1].op = 17 /\ hist[Len(hist) - 1].pc > 0
    /\ hist[Len(hist) - 1].stack # << >>
    /\ Last.op = 18
    /\ status = "RUNNING"

(***************************************************************************)
(* C7. n pushes followed by n pops, for every n the history holds: the     *)
(* j-th pop writes to its register the value of the j-th last push, and    *)
(* the stack is then what it was before the first of the pushes.           *)
(***************************************************************************)
PushDone(e) == e.op = 2 /\ ~IsInvalid(e.a) /\ Len(e.stack) < STACK_SIZE
PopDone(e) == e.op = 3 /\ IsRegister(e.a)

C7_StackLifo ==
    \A n \in 1..(HistLen \div 2) :
        Len(hist) >= 2 * n =>
            LET base == Len(hist) - 2 * n
            IN  (\A j \in 1..n : PushDone(hist[base + j]) /\ PopDone(hist[base + n + j]))
                =>  /\ \A j \in 1..n :
                          RegistersAfter(base + n + j)[hist[base + n + j].a - STORAGE_REG_LOW]
                              = ValIn(hist[base + n + 1 - j], hist[base + n + 1 - j].a)
                    /\ stack = hist[base + 1].stack
                    /\ \A j \in 1..n : Len(StackAfter(base + n + j)) = Len(stack) + n - j

\* two pushes of different values and the two pops that undo them
C7_Witness ==
    /\ Len(hist) >= 4
    /\ PushDone(hist[Len(hist) - 3]) /\ PushDone(hist[Len(hist) - 2])
    /\ PopDone(hist[Len(hist) - 1]) /\ PopDone(Last)
    /\ hist[Len(hist) - 3].a # hist[Len(hist) - 2].a
    /\ Last.a # hist[Len(hist) - 1].a

(***************************************************************************)
(* C8. add and mult with a register destination and operand values x, y in *)
(* 0..32767 store (x + y) mod 32768 and (x * y) mod 32768, a value in      *)
(* 0..32767, change no other register and advance pc by 4.  The image      *)
(* 9, 32768, 32769, 4 on a fresh machine leaves register 0 = 4 and pc = 4  *)
(* after one step.                                                         *)
(***************************************************************************)
C8_AddMultClosure ==
    Executed =>
        LET x == ValIn(Last, Last.b)
            y == ValIn(Last, Last.c)
            r == IF Last.op = 9 THEN (x + y) % 32768 ELSE (x * y) % 32768
        IN  /\ (/\ Last.op \in {9, 10} /\ IsRegister(Last.a)
                /\ ~IsInvalid(Last.b) /\ ~IsInvalid(Last.c)
                /\ x \in 0..32767 /\ y \in 0..32767)
                =>  /\ registers = [Last.registers EXCEPT ![Last.a - STORAGE_REG_LOW] = r]
                    /\ registers[Last.a - STORAGE_REG_LOW] \in 0..32767
                    /\ pc = Last.pc + 4
            /\ (/\ steps = 1
                /\ Last.memory = LoadWords(<<9, 32768, 32769, 4>>)
                /\ length = 4)
                => (registers[0] = 4 /\ pc = 4 /\ status = "RUNNING")

\* an addition that wraps around, taking one operand from a register
C8_Witness ==
    /\ Executed /\ Last.op = 9 /\ IsRegister(Last.a)
    /\ IsRegister(Last.b) /\ IsLiteral(Last.c)
    /\ ValIn(Last, Last.b) + ValIn(Last, Last.c) >= 32768
    /\ ValIn(Last, Last.b) <= 32767
    /\ status = "RUNNING"

(***************************************************************************)
(* C9. rmem or wmem whose address resolves to a value above 32767 ends     *)
(* FAULTED, with registers and address space as they were.                 *)
(***************************************************************************)
C9_AddressFault ==
    Executed =>
        LET field == IF Last.op = 15 THEN Last.b ELSE Last.a
        IN  (/\ Last.op \in {15, 16}
             /\ ~IsInvalid(Last.a) /\ ~IsInvalid(Last.b)
             /\ ValIn(Last, field) > 32767)
            => (status = "FAULTED" /\ registers = Last.registers /\ memory = Last.memory)

(***************************************************************************)
(* C10. wmem of v to an address m in 0..32767 and then rmem from m into a  *)
(* register: the index is inside memory.contents, the register reads v,    *)
(* and the wmem changed no other cell, no register and no stack entry.     *)
(***************************************************************************)
C10_AddressSpaceCapacity ==
    Len(hist) >= 2 =>
        LET w == hist[Len(hist) - 1]
            r == Last
            m == ValIn(w, w.a)
            v == ValIn(w, w.b)
        IN  (/\ w.op = 16 /\ ~IsInvalid(w.a) /\ ~IsInvalid(w.b)
             /\ m \in 0..32767 /\ v \in 0..32767
             /\ r.op = 15 /\ IsRegister(r.a) /\ ~IsInvalid(r.b)
             /\ ValIn(r, r.b) = m)
            =>  /\ MemIndexOk(m)
                /\ status # "CRASHED"
                /\ registers[r.a - STORAGE_REG_LOW] = v
                /\ r.registers = w.registers
                /\ r.stack = w.stack
                /\ \A k \in (DOMAIN r.memory \cup DOMAIN w.memory) \ {m} :
                       MemAt(r.memory, k) = MemAt(w.memory, k)

(***************************************************************************)
(* C11. In a running machine the four words fetched, at pc, pc + 1, pc + 2 *)
(* and pc + 3, are all cells of memory.contents.                           *)
(***************************************************************************)
C11_FetchInBounds ==
    status = "RUNNING" => \A k \in 0..3 : MemIndexOk(pc + k)

(***************************************************************************)
(* C12. Every step is taken by a running machine, so HALTED and FAULTED    *)
(* are final; and a step of a machine whose word at pc is 0 ends HALTED    *)
(* and leaves registers, address space, stack, pc, input and output alone. *)
(***************************************************************************)
C12_HaltTerminal ==
    [][ /\ status = "RUNNING"
        /\ (MemIndexOk(pc) /\ MemAt(memory, pc) = 0)
             => (status' = "HALTED"
                 /\ UNCHANGED <<registers, memory, stack, pc, input, output>>)
      ]_vars

\* a halt followed by words that are no program
C12_Witness ==
    /\ Executed /\ Last.op = 0
    /\ Last.a = 65535 /\ Last.b = 22
    /\ status = "HALTED"

(***************************************************************************)
(* C13. An opcode outside 0..21 ends the run FAULTED with pc, registers,   *)
(* address space and stack as they were; and a run is RUNNING, HALTED or   *)
(* FAULTED, nothing else.                                                  *)
(***************************************************************************)
C13_UnknownOpcode ==
    /\ (Executed /\ Last.op \notin 0..21)
          => /\ status = "FAULTED"
             /\ pc = Last.pc
             /\ registers = Last.registers
             /\ memory = Last.memory
             /\ stack = Last.stack
    /\ status \in {"RUNNING", "HALTED", "FAULTED"}

(***************************************************************************)
(* C14. After set has written a value v to the register of field f,        *)
(* reading f yields v: reg_read yields it, a push of f that follows pushes *)
(* it; and the other seven registers are as before the set.                *)
(***************************************************************************)
C14_RegisterRoundTrip ==
    /\ (Executed /\ Last.op = 1 /\ IsRegister(Last.a) /\ ~IsInvalid(Last.b))
          => /\ reg_read(Last.a) = {ValIn(Last, Last.b)}
             /\ \A k \in (0..7) \ {Last.a - 32768} : registers[k] = Last.registers[k]
    /\ Len(hist) >= 2 =>
          LET write == hist[Len(hist) - 1]
          IN  (/\ write.op = 1 /\ IsRegister(write.a) /\ ~IsInvalid(write.b)
               /\ Last.op = 2 /\ Last.a = write.a
               /\ Len(Last.stack) < STACK_SIZE)
              => stack = Append(Last.stack, ValIn(write, write.b))

\* set r7 32767 and then push r7
C14_Witness ==
    /\ Len(hist) >= 2
    /\ hist[Len(hist) - 1].op = 1 /\ hist[Len(hist) - 1].a = 32775
    /\ hist[Len(hist) - 1].b = 32767
    /\ Last.op = 2 /\ Last.a = 32775
    /\ stack = <<32767>>

(***************************************************************************)
(* C15. An opcode that writes a register, run with a destination field     *)
(* outside 32768..32775, ends FAULTED with the registers as they were.     *)
(***************************************************************************)
RegisterWriting == {1, 3, 4, 5, 9, 10, 11, 12, 13, 14, 15, 20}

C15_InvalidTarget ==
    (Executed /\ Last.op \in RegisterWriting /\ ~IsRegister(Last.a))
        => (status = "FAULTED" /\ registers = Last.registers)

(***************************************************************************)
(* C16. push, jmp and out of a field f in 0..32767 push, jump to and write *)
(* f itself, whatever the registers hold; of a field in 32768..32775 the   *)
(* value of register f - 32768; resolving f changes neither registers nor  *)
(* address space, and the stack only by the push.                          *)
(***************************************************************************)
C16_Resolve ==
    Executed =>
        LET f == Last.a
            v == IF IsLiteral(f) THEN f ELSE Last.registers[f - 32768]
        IN  (Last.op \in {2, 6, 19} /\ ~IsInvalid(f))
            =>  /\ registers = Last.registers
                /\ memory = Last.memory
                /\ (Last.op = 2 /\ Len(Last.stack) < STACK_SIZE)
                      => stack = Append(Last.stack, v)
                /\ Last.op = 6 => (pc = v /\ stack = Last.stack)
                /\ Last.op = 19
                      => /\ output # << >> /\ output[Len(output)] = v % 256
                         /\ stack = Last.stack

\* a push of a register that holds a value other than its own field and 0
C16_Witness ==
    /\ Executed /\ Last.op = 2 /\ IsRegister(Last.a)
    /\ Last.registers[Last.a - 32768] = 32767
    /\ stack # << >> /\ stack[Len(stack)] = 32767

(***************************************************************************)
(* C17. push, jmp, jt, jf, wmem, call, ret, out, noop and halt leave the   *)
(* registers as they were; an opcode that writes a register changes no     *)
(* register but that of its field a; only wmem changes the address space,  *)
(* and one cell of it; only push, pop, call and ret change the stack.      *)
(***************************************************************************)
C17_Frame ==
    Executed =>
        /\ Last.op \in {0, 2, 6, 7, 8, 16, 17, 18, 19, 21} => registers = Last.registers
        /\ Last.op \in RegisterWriting
              => \A k \in 0..7 :
                     registers[k] # Last.registers[k] => Last.a = 32768 + k
        /\ memory # Last.memory
              => /\ Last.op = 16
                 /\ Cardinality({k \in DOMAIN memory \cup DOMAIN Last.memory :
                                    MemAt(memory, k) # MemAt(Last.memory, k)}) = 1
        /\ stack # Last.stack => Last.op \in {2, 3, 17, 18}

(***************************************************************************)
(* C18. A file with an odd number of bytes is refused by the loader and no *)
(* instruction is executed; a file of 2n bytes gives length n.             *)
(***************************************************************************)
C18_OddRejected ==
    /\ size % 2 = 1 => (status = "LOADERROR" /\ steps = 0)
    /\ size % 2 = 0 => length = size \div 2

(***************************************************************************)
(* C19. mod whose third operand resolves to 0 ends the run FAULTED, or     *)
(* stores a value in 0..32767 in the register of its field a and goes on.  *)
(***************************************************************************)
C19_ModByZero ==
    (/\ Executed /\ Last.op = 11
     /\ ~IsInvalid(Last.b) /\ ~IsInvalid(Last.c)
     /\ ValIn(Last, Last.c) = 0)
    =>  \/ status = "FAULTED"
        \/ /\ status = "RUNNING"
           /\ IsRegister(Last.a)
           /\ registers[Last.a - 32768] \in 0..32767

(***************************************************************************)
(* C20. An opcode other than jmp, jt, jf, call and ret that leaves the     *)
(* machine running has advanced pc by its width; and a run that has        *)
(* executed none of those five is RUNNING after at most length steps and   *)
(* otherwise HALTED or FAULTED, after at most length + 1 steps.            *)
(***************************************************************************)
Width(op) ==
    CASE op \in {0, 21} -> 1
      [] op \in {2, 3, 19, 20} -> 2
      [] op \in {1, 14, 15, 16} -> 3
      [] op \in {4, 5, 9, 10, 11, 12, 13} -> 4

C20_Advance ==
    (Executed /\ Last.op \in (1..21) \ ControlFlow /\ status = "RUNNING")
        => pc = Last.pc + Width(Last.op)

C20_Bounded ==
    straight => /\ status = "RUNNING" => steps <= length
                /\ steps <= length + 1

C20_StraightLine ==
    /\ C20_Advance
    /\ C20_Bounded
    /\ straight => status \in {"RUNNING", "HALTED", "FAULTED"}

====
